---- MODULE Spec2Model ----
(***************************************************************************)
(* Model of OpenAIAssistant (src/src/openai_assistant.py) and S3Uploader   *)
(* (src/src/s3_uploader.py): one session object, its chat generator, and   *)
(* the artifact resolver _create_s3_download_url.                          *)
(*                                                                         *)
(* Strings are sequences of characters (<<"o","/","p">> is "o/p"), so that *)
(* split, basename, formatting and concatenation are computed.  A literal  *)
(* piece of a format string is carried as one element of the sequence.     *)
(* A Python None, an empty string and an empty list are all falsy in the   *)
(* conditions that test them; each is modelled by the empty sequence <<>>. *)
(***************************************************************************)
EXTENDS Naturals, Sequences, FiniteSets

VARIABLES
    thread_id,            \* self.thread_id ("" when no thread yet)
    uploaded_file,        \* self.uploaded_file (NoFile or the remote file id)
    stream_tool_outputs,  \* self.stream_tool_outputs
    pc,                   \* position of the chat generator / resolver
    err,                  \* exception that ended the generator ("none" if none)
    user_input,           \* argument of the running chat call
    calls,                \* remote calls issued by the current turn, in order
    nread,                \* number of events read from the stream this turn
    nitems,               \* number of list items those events carried
    nann,                 \* number of annotations the last event read carried
    ncode,                \* number of code inputs the step events read carried
    nlogs,                \* number of "logs" output items those events carried
    todo,                 \* what is left to do for the event being processed
    output,               \* fragments yielded to the caller this turn, in order
    owed,                 \* fragments the events read so far have to yield
    deltaIn,              \* concatenation of the text deltas received this turn
    console,              \* what print() wrote to the console this turn
    fs,                   \* names of the regular files present in the temp dir
    res,                  \* frame of the running _create_s3_download_url call
    conn,                 \* connection of the run's stream: none, open, closed
    attached              \* file id the last successful upload_file returned

session == <<thread_id, uploaded_file, stream_tool_outputs, attached>>
counts  == <<nread, nitems, nann, ncode, nlogs>>
stream  == <<counts, todo, output, owed, deltaIn, console>>
vars    == <<thread_id, uploaded_file, stream_tool_outputs, pc, err, user_input,
             calls, nread, nitems, nann, ncode, nlogs, todo, output, owed,
             deltaIn, console, fs, res, conn, attached>>

----------------------------------------------------------------------------
(* Bounds of the model.                                                    *)

\* events read from one run's stream
MaxEvents == 2
\* list items carried by the events of one run's stream, counted over all
\* nesting levels (content items, tool calls and their outputs, content
\* blocks and their annotations)
MaxItems == 3

----------------------------------------------------------------------------
(* Values.                                                                 *)

NoFile == "None"
EnvThreadIds == {"", "thread-env"}
NewThreadIds == {"thread-1", "thread-2"}
FileIds == {"file-1", "file-2"}
UserInputs == {"hello"}
AssistantId == "asst-1"

TempDir == <<"t", "m", "p">>
Texts == {<<"o", "/", "p">>, <<"q", "/">>}
TextValues == {<<"a">>, <<"b", "c">>}
CodeInputs == {<<"x">>}
LogValues == {<<"l">>}

NoRes == [file_id |-> "", object_name |-> <<>>, trace |-> <<>>, ret |-> <<>>,
          raise |-> FALSE, key |-> <<>>, s3_url |-> <<>>]

----------------------------------------------------------------------------
(* String and path helpers.                                                *)

\* str.split("/")[-1]: what follows the last "/" (the whole string if none)
RECURSIVE LastSegment(_)
LastSegment(s) ==
    IF s = <<>> THEN <<>>
    ELSE IF s[Len(s)] = "/" THEN <<>>
    ELSE LastSegment(SubSeq(s, 1, Len(s) - 1)) \o <<s[Len(s)]>>

\* Path(gettempdir()) / object_name, as the sequence of its components;
\* joining the empty name gives the temp dir itself
FilePath(object_name) ==
    IF object_name = <<>> THEN <<TempDir>> ELSE <<TempDir, object_name>>

\* os.path.basename of a path built by FilePath
Basename(path) == path[Len(path)]

\* the file name a path built by FilePath designates inside the temp dir
\* (<<>> when the path is the temp dir itself)
NameOf(path) == IF Len(path) = 1 THEN <<>> ELSE path[2]

\* the presigned URL S3Uploader.upload_file returns for an object name
PresignedUrl(object_name) == <<"https://bucket/">> \o object_name

\* f"\n\nDownload file: [{object_name}]({s3_url})\n"
DownloadLine(object_name, s3_url) ==
    <<"\n\nDownload file: [">> \o object_name \o <<"](">> \o s3_url \o <<")\n">>

\* f"\nError creating download link: {str(e)}\n"
ErrorLine(e) == <<"\nError creating download link:", " ", e, "\n">>

IsErrorLine(v) == v # <<>> /\ v[1] = "\nError creating download link:"
IsDownloadLine(v) == v # <<>> /\ v[1] = "\n\nDownload file: ["

Last(s) == s[Len(s)]

\* the path exists on disk: the temp dir itself always does
Exists(path) == Len(path) = 1 \/ NameOf(path) \in fs

----------------------------------------------------------------------------
(* Stream events.  An event is read whole from the stream; the sets below  *)
(* enumerate the events of each kind that carry exactly n list items.      *)

\* items of event.data.delta.content of a thread.message.delta event
ContentItems ==
    {[type |-> "text", value |-> v] : v \in TextValues}
        \cup {[type |-> "image_file", value |-> <<>>]}

DeltaEvents(n) ==
    {[event |-> "thread.message.delta", content |-> c] :
        c \in [1..n -> ContentItems]}

\* items of tool_call.code_interpreter.outputs: a "logs" item carries .logs,
\* an "image" item carries .image; neither carries .value
OutputItems ==
    {[type |-> "logs", logs |-> l] : l \in LogValues}
        \cup {[type |-> "image", logs |-> <<>>]}

\* tool calls whose size (the call and its output items) is exactly n
ToolCallsOfSize(n) ==
    (IF n = 1 THEN {[type |-> "function", input |-> <<>>, outputs |-> <<>>]}
     ELSE {})
    \cup {[type |-> "code_interpreter", input |-> i, outputs |-> o] :
            i \in {<<>>} \cup CodeInputs, o \in [1..(n - 1) -> OutputItems]}

RECURSIVE ToolCallListsOfSize(_)
ToolCallListsOfSize(n) ==
    IF n = 0 THEN {<<>>}
    ELSE UNION {{<<tc>> \o rest : tc \in ToolCallsOfSize(w),
                                   rest \in ToolCallListsOfSize(n - w)} :
                w \in 1..n}

\* event.data.delta.step_details: absent, a message_creation step, or a
\* tool_calls step
StepDetails(n) ==
    (IF n = 0 THEN {[type |-> "none", tool_calls |-> <<>>],
                    [type |-> "message_creation", tool_calls |-> <<>>]}
     ELSE {})
    \cup {[type |-> "tool_calls", tool_calls |-> tcs] :
            tcs \in ToolCallListsOfSize(n)}

StepEvents(n) ==
    {[event |-> "thread.run.step.delta", step_details |-> sd] :
        sd \in StepDetails(n)}

\* annotations of a text content block.  A "file_path" annotation carries
\* file_path.file_id, a "file" annotation carries file_id; any other type
\* (the service's "file_citation") is a third case of the type test
AnnTypes == {"file_path", "file", "file_citation"}

Annotation(type, text) ==
    [type |-> type, text |-> text,
     file_path_file_id |-> IF type = "file_path" THEN "file-fp" ELSE "",
     file_id |-> IF type = "file" THEN "file-f" ELSE ""]

Annotations == {Annotation(ty, tx) : ty \in AnnTypes, tx \in Texts}

\* content blocks of a completed message whose size (the block and its
\* annotations) is exactly n; only a "text" block has a .text
BlocksOfSize(n) ==
    (IF n = 1 THEN {[type |-> "image_file", annotations |-> <<>>]} ELSE {})
    \cup {[type |-> "text", annotations |-> a] :
            a \in [1..(n - 1) -> Annotations]}

RECURSIVE ContentsOfSize(_)
ContentsOfSize(n) ==
    IF n = 0 THEN {<<>>}
    ELSE UNION {{<<b>> \o rest : b \in BlocksOfSize(w),
                                  rest \in ContentsOfSize(n - w)} :
                w \in 1..n}

CompletedEvents(n) ==
    {[event |-> "thread.message.completed", content |-> c] :
        c \in ContentsOfSize(n)}

\* every other event of a run (thread.run.created, thread.run.completed, ...)
OtherEvents(n) == IF n = 0 THEN {[event |-> "thread.run.created"]} ELSE {}


----------------------------------------------------------------------------
(* What the body of `async for event in stream` does with one event, as    *)
(* the sequence of its effects in program order: a yield, a print, a call  *)
(* of the resolver (whose result is yielded), or a raise that ends the     *)
(* generator.                                                              *)

Yield(v, s) ==
    [op |-> "yield", val |-> v, src |-> s, file_id |-> "", name |-> <<>>,
     ann_type |-> "", ann_text |-> <<>>]
PrintLogs(v) ==
    [op |-> "print", val |-> v, src |-> "", file_id |-> "", name |-> <<>>,
     ann_type |-> "", ann_text |-> <<>>]
Raise(e) ==
    [op |-> "raise", val |-> <<e>>, src |-> "", file_id |-> "", name |-> <<>>,
     ann_type |-> "", ann_text |-> <<>>]
\* the call of the resolver for an annotation, with its two arguments; the
\* annotation's type and text are kept beside them
Resolve(file_id, object_name, annotation) ==
    [op |-> "resolve", val |-> <<>>, src |-> "artifact", file_id |-> file_id,
     name |-> object_name, ann_type |-> annotation.type,
     ann_text |-> annotation.text]

\* a raise ends the generator: nothing after it runs
RECURSIVE UpToRaise(_)
UpToRaise(steps) ==
    IF steps = <<>> THEN <<>>
    ELSE IF steps[1].op = "raise" THEN <<steps[1]>>
    ELSE <<steps[1]>> \o UpToRaise(Tail(steps))

\* (variant: only the first content item of a delta is looked at)
DeltaStepsFirstOnly(content) ==
    IF content # <<>> /\ content[1].type = "text"
    THEN <<Yield(content[1].value, "text")>>
    ELSE <<>>

\* lines 76-78: for content in event.data.delta.content
RECURSIVE DeltaSteps(_)
DeltaSteps(content) ==
    IF content = <<>> THEN <<>>
    ELSE (IF content[1].type = "text"
          THEN <<Yield(content[1].value, "text")>>
          ELSE <<>>) \o DeltaSteps(Tail(content))

\* lines 89-93: for output in tool_call.code_interpreter.outputs; an item
\* that is not "logs" has no .value, so reading output.value raises
RECURSIVE OutputSteps(_)
OutputSteps(outputs) ==
    IF outputs = <<>> THEN <<>>
    ELSE (IF outputs[1].type = "logs"
          THEN <<PrintLogs(outputs[1].logs)>>
          ELSE <<Raise("output.value")>>) \o OutputSteps(Tail(outputs))

\* (variant: the flag is ignored)
SurfaceAlways == TRUE

\* lines 79, 86: self.stream_tool_outputs, as the stream loop reads it
SurfaceToolOutput == stream_tool_outputs

\* lines 85-87: the code input of one tool call
InputSteps(tool_call) ==
    IF tool_call.input # <<>> /\ SurfaceToolOutput
    THEN <<Yield(tool_call.input, "code")>>
    ELSE <<>>

\* lines 83-93: for tool_call in step_details.tool_calls
RECURSIVE ToolCallSteps(_)
ToolCallSteps(tool_calls) ==
    IF tool_calls = <<>> THEN <<>>
    ELSE (IF tool_calls[1].type = "code_interpreter"
          THEN InputSteps(tool_calls[1]) \o OutputSteps(tool_calls[1].outputs)
          ELSE <<>>) \o ToolCallSteps(Tail(tool_calls))

\* (variant: the whole display text is used as the object name)
AnnotationStepsWholeText(annotation) ==
    LET object_name == annotation.text
    IN  IF annotation.type = "file_path"
        THEN <<Resolve(annotation.file_path_file_id, object_name, annotation)>>
        ELSE IF annotation.type = "file"
        THEN <<Resolve(annotation.file_id, object_name, annotation)>>
        ELSE <<>>

\* lines 99-107: one annotation
AnnotationSteps(annotation) ==
    LET object_name == LastSegment(annotation.text)
    IN  IF annotation.type = "file_path"
        THEN <<Resolve(annotation.file_path_file_id, object_name, annotation)>>
        ELSE IF annotation.type = "file"
        THEN <<Resolve(annotation.file_id, object_name, annotation)>>
        ELSE <<>>

RECURSIVE AnnotationListSteps(_)
AnnotationListSteps(annotations) ==
    IF annotations = <<>> THEN <<>>
    ELSE AnnotationSteps(annotations[1])
            \o AnnotationListSteps(Tail(annotations))

\* lines 96-107: for content_block in message.content; a block that is not
\* a text block has no .text, so reading content_block.text raises
RECURSIVE BlockSteps(_)
BlockSteps(content) ==
    IF content = <<>> THEN <<>>
    ELSE (IF content[1].type = "text"
          THEN AnnotationListSteps(content[1].annotations)
          ELSE <<Raise("content_block.text")>>) \o BlockSteps(Tail(content))

\* line 79: the branch of thread.run.step.delta is entered only with the flag
StepBranch(event) ==
    event.event = "thread.run.step.delta" /\ SurfaceToolOutput

\* lines 74-107: the if / elif chain over event.event
EventSteps(event) ==
    IF event.event = "thread.message.delta"
    THEN DeltaSteps(event.content)
    ELSE IF StepBranch(event)
    THEN (IF event.step_details.type = "tool_calls"
          THEN UpToRaise(ToolCallSteps(event.step_details.tool_calls))
          ELSE <<>>)
    ELSE IF event.event = "thread.message.completed"
    THEN UpToRaise(BlockSteps(event.content))
    ELSE <<>>

\* number of fragments a sequence of effects yields
RECURSIVE NumYields(_)
NumYields(steps) ==
    IF steps = <<>> THEN 0
    ELSE (IF steps[1].op \in {"yield", "resolve"} THEN 1 ELSE 0)
            + NumYields(Tail(steps))

\* number of annotations a completed message carries over its text blocks
RECURSIVE NumAnnotations(_)
NumAnnotations(content) ==
    IF content = <<>> THEN 0
    ELSE Len(content[1].annotations) + NumAnnotations(Tail(content))

\* number of code inputs the code_interpreter tool calls of a step carry
RECURSIVE NumCodeInputs(_)
NumCodeInputs(tool_calls) ==
    IF tool_calls = <<>> THEN 0
    ELSE (IF tool_calls[1].type = "code_interpreter" /\ tool_calls[1].input # <<>>
          THEN 1 ELSE 0) + NumCodeInputs(Tail(tool_calls))

\* number of "logs" items among the outputs of the code_interpreter tool
\* calls of a step
RECURSIVE NumLogs(_)
NumLogs(tool_calls) ==
    IF tool_calls = <<>> THEN 0
    ELSE (IF tool_calls[1].type = "code_interpreter"
          THEN Cardinality({i \in DOMAIN tool_calls[1].outputs :
                                tool_calls[1].outputs[i].type = "logs"})
          ELSE 0) + NumLogs(Tail(tool_calls))

\* concatenation of the text of the text items of a delta's content
RECURSIVE TextOf(_)
TextOf(content) ==
    IF content = <<>> THEN <<>>
    ELSE (IF content[1].type = "text" THEN content[1].value ELSE <<>>)
            \o TextOf(Tail(content))


----------------------------------------------------------------------------
(* The session and the start of a chat turn.                               *)

Call(op, attachments) ==
    [op |-> op, thread_id |-> thread_id, attachments |-> attachments]

Init ==
    /\ thread_id \in EnvThreadIds
    /\ uploaded_file = NoFile
    /\ stream_tool_outputs \in BOOLEAN
    /\ pc = "idle"
    /\ err = "none"
    /\ user_input = ""
    /\ calls = <<>>
    /\ nread = 0
    /\ nitems = 0
    /\ nann = 0
    /\ ncode = 0
    /\ nlogs = 0
    /\ todo = <<>>
    /\ output = <<>>
    /\ owed = 0
    /\ deltaIn = <<>>
    /\ console = <<>>
    /\ fs = {}
    /\ res = NoRes
    /\ conn = "none"
    /\ attached = NoFile

\* (variant: the caller starts operations while a turn is running)
CallerAlways == TRUE

\* lines 143-150: main exhausts the generator of a turn (or is left by its
\* exception) before it calls the session again
CallerIdle == pc \in {"idle", "done", "raised"}

\* (variant: an upload does not replace a file that is already attached)
UploadFileKeepsFirst ==
    /\ CallerIdle
    /\ \/ \E id \in FileIds :
            /\ uploaded_file' = IF uploaded_file = NoFile THEN id
                                ELSE uploaded_file
            /\ attached' = id
       \/ UNCHANGED <<uploaded_file, attached>>
    /\ UNCHANGED <<thread_id, stream_tool_outputs, pc, err, user_input, calls,
                   stream, fs, res, conn>>

\* upload_file: open the local file, files.create, keep the response; a
\* failing open or files.create raises before the assignment
UploadFile ==
    /\ CallerIdle
    /\ \/ \E id \in FileIds : uploaded_file' = id /\ attached' = id
       \/ UNCHANGED <<uploaded_file, attached>>
    /\ UNCHANGED <<thread_id, stream_tool_outputs, pc, err, user_input, calls,
                   stream, fs, res, conn>>

\* chat(user_input) is called and its generator started
Chat ==
    /\ CallerIdle
    /\ \E u \in UserInputs : user_input' = u
    /\ pc' = "thread"
    /\ err' = "none"
    /\ calls' = <<>>
    /\ nread' = 0
    /\ nitems' = 0
    /\ nann' = 0
    /\ ncode' = 0
    /\ nlogs' = 0
    /\ todo' = <<>>
    /\ output' = <<>>
    /\ owed' = 0
    /\ deltaIn' = <<>>
    /\ console' = <<>>
    /\ res' = NoRes
    /\ conn' = "none"
    /\ UNCHANGED <<session, fs>>

\* (variant: a thread is created on every turn)
HasThreadNever == FALSE

\* line 35: if self.thread_id
HasThread == thread_id # ""

\* _initialize_thread: retrieve the pinned thread, or create one and pin it;
\* a failing remote call raises out of chat
InitializeThread ==
    /\ pc = "thread"
    /\ IF HasThread
       THEN /\ calls' = Append(calls, Call("threads.retrieve", <<>>))
            /\ UNCHANGED thread_id
            /\ \/ pc' = "submit" /\ UNCHANGED err
               \/ pc' = "raised" /\ err' = "thread"
       ELSE /\ calls' = Append(calls, Call("threads.create", <<>>))
            /\ \/ \E id \in NewThreadIds :
                    thread_id' = id /\ pc' = "submit" /\ UNCHANGED err
               \/ pc' = "raised" /\ err' = "thread" /\ UNCHANGED thread_id
    /\ UNCHANGED <<uploaded_file, stream_tool_outputs, attached, user_input,
                   stream, fs, res, conn>>

\* (variant: the attachment entry is built whether or not a file is attached)
AttachmentsAlways ==
    <<[file_id |-> uploaded_file, tools |-> <<"code_interpreter">>]>>

\* lines 59-65: the attachments of the message
Attachments ==
    IF uploaded_file # NoFile
    THEN <<[file_id |-> uploaded_file, tools |-> <<"code_interpreter">>]>>
    ELSE <<>>

\* (variant: a failing submission is swallowed and the run started anyway)
SubmitMessageSwallowed ==
    /\ pc = "submit"
    /\ calls' = Append(calls, Call("messages.create", Attachments))
    /\ \/ pc' = "run" /\ UNCHANGED err
       \/ pc' = "run" /\ err' = "message"
    /\ UNCHANGED <<session, user_input, stream, fs, res, conn>>

\* lines 54-67: build the message and submit it
SubmitMessage ==
    /\ pc = "submit"
    /\ calls' = Append(calls, Call("messages.create", Attachments))
    /\ \/ pc' = "run" /\ UNCHANGED err
       \/ pc' = "raised" /\ err' = "message"
    /\ UNCHANGED <<session, user_input, stream, fs, res, conn>>

\* lines 69-71: start the streaming run
StartRun ==
    /\ pc = "run"
    /\ calls' = Append(calls, Call("runs.create", <<>>))
    /\ \/ pc' = "loop" /\ conn' = "open" /\ UNCHANGED err
       \/ pc' = "raised" /\ err' = "run" /\ UNCHANGED conn
    /\ UNCHANGED <<session, user_input, stream, fs, res>>

----------------------------------------------------------------------------
(* The stream loop.                                                        *)

\* (variant: the next event is read while effects of the last are pending)
AtNextEager == pc = "loop"

\* the generator is at `async for event in stream`, about to ask the stream
\* for its next event
AtNext == pc = "loop" /\ todo = <<>>

Received(event, n) ==
    /\ AtNext
    /\ nread < MaxEvents
    /\ nread' = nread + 1
    /\ nitems' = nitems + n
    /\ nann' = (IF event.event = "thread.message.completed"
               THEN NumAnnotations(event.content) ELSE 0)
    /\ ncode' = ncode + (IF event.event = "thread.run.step.delta"
                        THEN NumCodeInputs(event.step_details.tool_calls)
                        ELSE 0)
    /\ nlogs' = nlogs + (IF event.event = "thread.run.step.delta"
                        THEN NumLogs(event.step_details.tool_calls)
                        ELSE 0)
    /\ todo' = EventSteps(event)
    /\ owed' = owed + NumYields(EventSteps(event))
    /\ deltaIn' = deltaIn \o (IF event.event = "thread.message.delta"
                              THEN TextOf(event.content) ELSE <<>>)
    /\ UNCHANGED <<session, pc, err, user_input, calls, output, console,
                   fs, res, conn>>

ReadEvent ==
    \E n \in 0..(MaxItems - nitems) :
        \/ \E event \in DeltaEvents(n) : Received(event, n)
        \/ \E event \in StepEvents(n) : Received(event, n)
        \/ \E event \in CompletedEvents(n) : Received(event, n)
        \/ \E event \in OtherEvents(n) : Received(event, n)

\* the stream is exhausted: the loop and the generator end
StreamClose ==
    /\ AtNext
    /\ pc' = "done"
    /\ conn' = "closed"
    /\ UNCHANGED <<session, err, user_input, calls, stream, fs, res>>

\* (variant: the drop is taken for the end of the stream)
StreamDropSwallowed ==
    /\ AtNext
    /\ pc' = "done"
    /\ err' = "stream"
    /\ conn' = "closed"
    /\ UNCHANGED <<session, user_input, calls, stream, fs, res>>

\* the connection drops: the stream's __anext__ raises out of chat
StreamDrop ==
    /\ AtNext
    /\ pc' = "raised"
    /\ err' = "stream"
    /\ conn' = "closed"
    /\ UNCHANGED <<session, user_input, calls, stream, fs, res>>

Doing(op) == pc = "loop" /\ todo # <<>> /\ todo[1].op = op

Fragment(val, src) == [val |-> val, src |-> src, ev |-> nread]

\* lines 78, 87, 102, 107: the consumer takes the fragment and either
\* asks for the next one or stops iterating; chat holds the stream in no
\* "async with" or try/finally, so a generator left suspended at its yield
\* runs no code and the stream stays as it is.  main never stops early;
\* what a consumer that does stop calls next is left open.
Consumed ==
    \/ pc' = "loop"
    \/ pc' = "abandoned"

\* lines 78, 87: yield a text fragment or a code input
YieldFragment ==
    /\ Doing("yield")
    /\ output' = Append(output, Fragment(todo[1].val, todo[1].src))
    /\ todo' = Tail(todo)
    /\ Consumed
    /\ UNCHANGED <<session, err, user_input, calls, counts, owed, deltaIn,
                   console, fs, res, conn>>

\* line 91: print(output.logs, end="", flush=True)
PrintOutput ==
    /\ Doing("print")
    /\ console' = Append(console, todo[1].val)
    /\ todo' = Tail(todo)
    /\ UNCHANGED <<session, pc, err, user_input, calls, counts, output, owed,
                   deltaIn, fs, res, conn>>

\* lines 93, 97: an attribute the object lacks is read; the exception leaves
\* the generator
RaiseAttributeError ==
    /\ Doing("raise")
    /\ pc' = "raised"
    /\ err' = todo[1].val[1]
    /\ todo' = <<>>
    /\ UNCHANGED <<session, user_input, calls, counts, output, owed,
                   deltaIn, console, fs, res, conn>>


----------------------------------------------------------------------------
(* The artifact resolver, _create_s3_download_url(file_id, object_name),   *)
(* one action per step.  res.trace records how each step ended.            *)

Traced(r, what) == [r EXCEPT !.trace = Append(@, what)]

\* lines 101, 105: the resolver is called for the annotation at hand
ResolveCall ==
    /\ Doing("resolve")
    /\ pc' = "download"
    /\ res' = [NoRes EXCEPT !.file_id = todo[1].file_id,
                            !.object_name = todo[1].name]
    /\ UNCHANGED <<session, err, user_input, calls, stream, fs, conn>>

\* (variant: the handler lets the exception out of the resolver)
Reraised(e) == [ret |-> <<>>, raise |-> TRUE]

\* lines 120-122: except Exception as e: the error line is the return value
Caught(e) == [ret |-> ErrorLine(e), raise |-> FALSE]

Failed(r, what, e) ==
    [Traced(r, what) EXCEPT !.ret = Caught(e).ret, !.raise = Caught(e).raise]

\* (variant: a failed download does not stop the resolution)
DownloadIgnoreFailure ==
    /\ pc = "download"
    /\ \/ pc' = "write" /\ res' = Traced(res, "download_ok")
       \/ pc' = "write" /\ res' = Traced(res, "download_fail")
    /\ UNCHANGED <<session, err, user_input, calls, stream, fs, conn>>

\* line 116: file_data = await self.client.files.content(file_id)
Download ==
    /\ pc = "download"
    /\ \/ pc' = "write" /\ res' = Traced(res, "download_ok")
       \/ pc' = "unlink" /\ res' = Failed(res, "download_fail", "download failed")
    /\ UNCHANGED <<session, err, user_input, calls, stream, fs, conn>>

\* line 117: file_path.write_bytes(file_data.read()); it fails on the temp
\* dir itself, and a failure may come before or after the file is created
WriteBytes ==
    /\ pc = "write"
    /\ LET path == FilePath(res.object_name)
       IN  \/ /\ Len(path) > 1
              /\ fs' = fs \cup {NameOf(path)}
              /\ pc' = "upload"
              /\ res' = Traced(res, "write_ok")
           \/ /\ \/ fs' = fs
                 \/ Len(path) > 1 /\ fs' = fs \cup {NameOf(path)}
              /\ pc' = "unlink"
              /\ res' = Failed(res, "write_fail", "write failed")
    /\ UNCHANGED <<session, err, user_input, calls, stream, conn>>

\* s3_uploader.py lines 26-40: the object is named after the file; the URL
\* is presigned for that object
S3UploadFile(path) == PresignedUrl(Basename(path))

\* (variant: once a resolution of the message has failed, the next ones
\* report a failure too)
UploadToS3Sticky ==
    /\ pc = "upload"
    /\ LET path == FilePath(res.object_name)
           poisoned == output # <<>> /\ IsErrorLine(Last(output).val)
       IN  \/ res' = [Traced(res, "upload_ok") EXCEPT
                        !.key = Basename(path),
                        !.s3_url = S3UploadFile(path),
                        !.ret = IF poisoned THEN ErrorLine("upload failed")
                                ELSE DownloadLine(res.object_name,
                                                  S3UploadFile(path))]
           \/ res' = [Failed(res, "upload_fail", "upload failed") EXCEPT
                        !.key = Basename(path)]
    /\ pc' = "unlink"
    /\ UNCHANGED <<session, err, user_input, calls, stream, fs, conn>>

\* lines 118-119: s3_url = await self._upload_to_s3(str(file_path)), then
\* the download line is returned; S3Uploader.upload_file re-raises a failure
UploadToS3 ==
    /\ pc = "upload"
    /\ LET path == FilePath(res.object_name)
       IN  \/ res' = [Traced(res, "upload_ok") EXCEPT
                        !.key = Basename(path),
                        !.s3_url = S3UploadFile(path),
                        !.ret = DownloadLine(res.object_name, S3UploadFile(path))]
           \/ res' = [Failed(res, "upload_fail", "upload failed") EXCEPT
                        !.key = Basename(path)]
    /\ pc' = "unlink"
    /\ UNCHANGED <<session, err, user_input, calls, stream, fs, conn>>

\* (variant: the unlink removes nothing)
UnlinkedNothing(path) == fs

\* line 125: file_path.unlink(missing_ok=True), when it succeeds
Unlinked(path) == fs \ {NameOf(path)}

\* (variant: a failing unlink is tried again until it succeeds)
UnlinkRetry ==
    /\ pc = "unlink"
    /\ LET path == FilePath(res.object_name)
       IN  \/ /\ Len(path) > 1
              /\ fs' = Unlinked(path)
              /\ res' = Traced(res, "unlink_ok")
              /\ IF res.raise
                 THEN pc' = "raised" /\ err' = "artifact"
                 ELSE pc' = "returned" /\ UNCHANGED err
           \/ UNCHANGED <<fs, res, pc, err>>
    /\ UNCHANGED <<session, user_input, calls, stream, conn>>

\* lines 123-128: finally: unlink the staging file; a failure of the unlink
\* (always, for the temp dir itself) is logged and swallowed.  Then the
\* call returns (or, had the handler re-raised, raises).
Unlink ==
    /\ pc = "unlink"
    /\ LET path == FilePath(res.object_name)
       IN  \/ /\ Len(path) > 1
              /\ fs' = Unlinked(path)
              /\ res' = Traced(res, "unlink_ok")
           \/ /\ fs' = fs
              /\ res' = Traced(res, "unlink_fail")
    /\ IF res.raise
       THEN pc' = "raised" /\ err' = "artifact"
       ELSE pc' = "returned" /\ UNCHANGED err
    /\ UNCHANGED <<session, user_input, calls, stream, conn>>

\* lines 101, 105: yield await self._create_s3_download_url(...)
YieldResult ==
    /\ pc = "returned"
    /\ todo # <<>>
    /\ output' = Append(output, Fragment(res.ret, todo[1].src))
    /\ todo' = Tail(todo)
    /\ Consumed
    /\ res' = NoRes
    /\ UNCHANGED <<session, err, user_input, calls, counts, owed, deltaIn,
                   console, fs, conn>>

----------------------------------------------------------------------------
Next ==
    \/ UploadFile
    \/ Chat
    \/ InitializeThread
    \/ SubmitMessage
    \/ StartRun
    \/ ReadEvent
    \/ StreamClose
    \/ StreamDrop
    \/ YieldFragment
    \/ PrintOutput
    \/ RaiseAttributeError
    \/ ResolveCall
    \/ Download
    \/ WriteBytes
    \/ UploadToS3
    \/ Unlink
    \/ YieldResult

Spec == Init /\ [][Next]_vars

\* the steps of a running turn: the generator's own steps, the remote calls
\* it awaits and the consumer's requests for the next fragment
Turn ==
    \/ InitializeThread
    \/ SubmitMessage
    \/ StartRun
    \/ ReadEvent
    \/ StreamClose
    \/ StreamDrop
    \/ YieldFragment
    \/ PrintOutput
    \/ RaiseAttributeError
    \/ ResolveCall
    \/ Download
    \/ WriteBytes
    \/ UploadToS3
    \/ Unlink
    \/ YieldResult

\* the event loop keeps running the turn's coroutine, every awaited remote
\* call returns or fails, and a stream that sends no more events closes
FairSpec == Spec /\ WF_vars(Turn)


----------------------------------------------------------------------------
(* Properties.                                                             *)

InTrace(what) == \E i \in DOMAIN res.trace : res.trace[i] = what

ResolutionFailed ==
    InTrace("download_fail") \/ InTrace("write_fail") \/ InTrace("upload_fail")

\* concatenation of the text fragments yielded so far
RECURSIVE TextYielded(_)
TextYielded(out) ==
    IF out = <<>> THEN <<>>
    ELSE (IF out[1].src = "text" THEN out[1].val ELSE <<>>)
            \o TextYielded(Tail(out))

\* the generator is between two events, or has ended
EventDone == todo = <<>> /\ pc \in {"loop", "done", "raised"}

\* C1, as stated: once the resolver has returned, on whatever exit path, the
\* staging file <tempdir>/<display name> does not exist.
C1_StagingFileGone ==
    pc = "returned" => ~Exists(FilePath(res.object_name))

\* C1, amended: every exit path of the resolver ends with the unlink of the
\* staging file, and once the resolver has returned the staging file does
\* not exist unless that unlink itself failed.
C1_StagingFileGoneUnlessUnlinkFails ==
    pc = "returned" =>
        /\ res.trace # <<>>
        /\ Last(res.trace) \in {"unlink_ok", "unlink_fail"}
        /\ Last(res.trace) = "unlink_ok" => ~Exists(FilePath(res.object_name))

\* the upload failed after the file was written, and the file is gone
C1_Witness ==
    /\ pc = "returned"
    /\ res.trace = <<"download_ok", "write_ok", "upload_fail", "unlink_ok">>
    /\ ~Exists(FilePath(res.object_name))

\* C2, as stated: once a completed message carrying N annotations has been
\* processed, exactly N resolution results have been yielded for it.
C2_OneResultPerAnnotation ==
    EventDone =>
        Cardinality({i \in DOMAIN output :
                        output[i].src = "artifact" /\ output[i].ev = nread})
            = nann

\* C3: the result of a resolution is decided by its own upload alone: it is
\* an error line if its upload failed and a download line if its upload
\* succeeded, whatever the resolutions before it in the message yielded.
C3_ResolutionsIsolated ==
    pc = "returned" =>
        /\ InTrace("upload_fail") => IsErrorLine(res.ret)
        /\ InTrace("upload_ok") => IsDownloadLine(res.ret)

\* annotation A of the message yielded an upload error and annotation B,
\* after it in the same message, resolves to a download line
C3_Witness ==
    /\ pc = "returned"
    /\ InTrace("upload_ok")
    /\ IsDownloadLine(res.ret)
    /\ output # <<>>
    /\ Last(output).ev = nread
    /\ Last(output).val = ErrorLine("upload failed")

\* C4: no exception leaves the resolver: when its download, write or upload
\* failed it returns a line that begins "\nError creating download link:",
\* and the generator goes on to yield it.
C4_ResolverNeverRaises ==
    /\ err # "artifact"
    /\ pc = "returned" =>
        /\ todo # <<>>
        /\ ResolutionFailed => IsErrorLine(res.ret)

\* an error line was yielded and a fragment of a later event after it
C4_Witness ==
    \E i \in DOMAIN output :
        /\ output[i].src = "artifact"
        /\ IsErrorLine(output[i].val)
        /\ i < Len(output)
        /\ output[i + 1].ev > output[i].ev

\* C5: between events, the concatenation of the text fragments yielded is
\* the concatenation of the text deltas received, in order.
C5_TextConcatenation ==
    todo = <<>> => TextYielded(output) = deltaIn

\* two delta events were received and the stream closed
C5_Witness ==
    /\ pc = "done"
    /\ nread = 2
    /\ Len(output) = 2
    /\ deltaIn = <<"b", "c", "a">>

\* C6: with stream_tool_outputs false no code input is ever yielded: every
\* fragment is a text fragment or a resolution result.
C6_NoCodeInputWhenFlagOff ==
    ~stream_tool_outputs =>
        \A i \in DOMAIN output : output[i].src \in {"text", "artifact"}

\* a step event carrying a code input was received with the flag off
C6_Witness ==
    /\ ~stream_tool_outputs
    /\ ncode > 0
    /\ pc = "done"

\* C7: a thread id, once set, never changes, and while it is set no
\* threads.create call is issued.
C7_ThreadPinned ==
    [][thread_id # "" =>
          /\ thread_id' = thread_id
          /\ (calls' # calls /\ calls' # <<>>) =>
                Last(calls').op # "threads.create"]_vars

\* a turn retrieves the thread an earlier turn created
C7_Witness ==
    /\ thread_id \in NewThreadIds
    /\ calls # <<>>
    /\ calls[1].op = "threads.retrieve"
    /\ calls[1].thread_id = thread_id

\* C8: the message a turn submits carries exactly one attachment entry, for
\* the attached file and the code_interpreter tool, when a file is attached
\* and none when no file is attached.
C8_OneAttachment ==
    pc \notin {"idle", "done", "raised", "abandoned"} =>
        \A i \in DOMAIN calls :
            calls[i].op = "messages.create" =>
                IF uploaded_file = NoFile
                THEN calls[i].attachments = <<>>
                ELSE /\ Len(calls[i].attachments) = 1
                     /\ calls[i].attachments[1].file_id = uploaded_file
                     /\ calls[i].attachments[1].tools = <<"code_interpreter">>

\* a message was submitted with a file attached
C8_Witness ==
    /\ pc = "run"
    /\ uploaded_file = "file-2"
    /\ Len(calls) = 2
    /\ calls[2].op = "messages.create"
    /\ Len(calls[2].attachments) = 1

\* C9: fragments are yielded in the order of their events, and when an event
\* is read every fragment of the events before it has been yielded.
C9_ArrivalOrder ==
    /\ \A i, j \in DOMAIN output : i < j => output[i].ev <= output[j].ev
    /\ \A i \in DOMAIN output : output[i].ev <= nread
    /\ Len(output) + NumYields(todo) = owed

\* two events each yielded a fragment
C9_Witness ==
    /\ Len(output) = 2
    /\ output[1].ev = 1
    /\ output[2].ev = 2
    /\ todo = <<>>

\* C10: when the stream drops the generator ends by raising, what it has
\* yielded is all the fragments of the events received, and nothing is
\* yielded or retracted afterwards.
C10_StreamDropPropagates ==
    /\ [](err = "stream" =>
            /\ pc = "raised"
            /\ todo = <<>>
            /\ Len(output) = owed)
    /\ [][(err = "stream" /\ err' = "stream") => output' = output]_vars

\* the stream dropped after a fragment was yielded
C10_Witness ==
    /\ err = "stream"
    /\ pc = "raised"
    /\ nread = 1
    /\ Len(output) = 1

\* C11, as stated: whenever the caller has stopped consuming the output
\* sequence and abandoned it, the stream connection that chat call opened
\* is no longer open.
C11_AbandonedReleased == pc = "abandoned" => conn # "open"

\* the remote call the turn issues in i-th place
SetupOps(i) ==
    CASE i = 1 -> {"threads.retrieve", "threads.create"}
      [] i = 2 -> {"messages.create"}
      [] i = 3 -> {"runs.create"}
      [] OTHER -> {}

\* C12: a failure of the thread call or of the message submission leaves
\* chat as an exception and ends the turn; after a failed thread call no
\* message is submitted and no run started, after a failed submission no run
\* is started; and a turn issues the thread call, messages.create and
\* runs.create at most once each, in that order.
C12_SetupFailureAborts ==
    /\ \A i \in DOMAIN calls : calls[i].op \in SetupOps(i)
    /\ err = "thread" => pc = "raised" /\ Len(calls) = 1
    /\ err = "message" => pc = "raised" /\ Len(calls) = 2

\* a turn whose message submission failed
C12_Witness ==
    /\ err = "message"
    /\ pc = "raised"
    /\ Len(calls) = 2
    /\ calls[2].op = "messages.create"

\* C13, as stated: of the output items of the code_interpreter tool calls of
\* the step events read, each "logs" item has been printed to the console
\* once the event is done, and no output item is among the yielded fragments.
C13_LogsForwarded ==
    /\ EventDone => Len(console) = nlogs
    /\ \A i \in DOMAIN output : output[i].val \notin LogValues

\* C14, as stated: an output item that is not "logs" never ends the output
\* sequence with an error.
C14_UnclassifiedOutputNotFatal == err # "output.value"

\* C15: the session's attached file is always the handle the most recent
\* successful upload_file returned (none before the first), a chat turn
\* never changes it, and a turn that submits its message while a file is
\* attached attaches exactly that file.
C15_AttachmentKept ==
    /\ uploaded_file = attached
    /\ (~CallerIdle /\ Len(calls) >= 2 /\ attached # NoFile) =>
            /\ Len(calls[2].attachments) = 1
            /\ calls[2].attachments[1].file_id = attached

\* a turn has run to its end with the second file attached, and the file is
\* still attached
C15_Witness ==
    /\ pc = "done"
    /\ nread > 0
    /\ attached = "file-2"
    /\ uploaded_file = "file-2"
    /\ calls[2].attachments[1].file_id = "file-2"

\* name is what follows the last "/" of text (all of text if it has none)
IsLastSegment(name, text) ==
    \E k \in 0..Len(text) :
        /\ name = SubSeq(text, k + 1, Len(text))
        /\ k = 0 \/ text[k] = "/"
        /\ \A i \in DOMAIN name : name[i] # "/"

\* C16: when the download and the upload of a resolution both succeeded, the
\* resolver returns "\n\nDownload file: [<name>](<url>)\n" with <name> the
\* last "/"-separated segment of the annotation's text and <url> the URL the
\* upload returned, and the download was asked for file_path.file_id of a
\* "file_path" annotation and for file_id of a "file" annotation.
C16_DownloadLine ==
    (pc = "returned" /\ InTrace("download_ok") /\ InTrace("upload_ok")) =>
        /\ \E k \in 0..Len(todo[1].ann_text) :
              LET name == SubSeq(todo[1].ann_text, k + 1, Len(todo[1].ann_text))
              IN  /\ IsLastSegment(name, todo[1].ann_text)
                  /\ res.ret = <<"\n\nDownload file: [">> \o name \o <<"](">>
                                    \o res.s3_url \o <<")\n">>
        /\ res.s3_url # <<>>
        /\ todo[1].ann_type = "file_path" => res.file_id = "file-fp"
        /\ todo[1].ann_type = "file" => res.file_id = "file-f"

\* a "file" annotation with text "o/p" has been resolved with success
C16_Witness ==
    /\ pc = "returned"
    /\ InTrace("download_ok")
    /\ InTrace("upload_ok")
    /\ todo[1].ann_type = "file"
    /\ todo[1].ann_text = <<"o", "/", "p">>
    /\ res.ret = <<"\n\nDownload file: [", "p", "](", "https://bucket/", "p",
                   ")\n">>

C18_DistinctStaging ==
    pc \in {"download", "write", "upload", "unlink"} =>
        \A i \in DOMAIN output :
            (output[i].ev = nread /\ output[i].src = "artifact") =>
                output[i].val # DownloadLine(res.object_name,
                                             PresignedUrl(res.object_name))

\* a turn is under way
TurnLive == pc \notin {"idle", "done", "raised", "abandoned"}

\* C19: a turn that is under way ends (its stream closed or dropped, an
\* exception left the generator, or the consumer stopped), provided its
\* steps keep being run and the stream closes once it sends no more events;
\* and the fragments yielded never outnumber the list items of the events
\* received.
C19_Terminates ==
    /\ [](Len(output) <= nitems)
    /\ TurnLive ~> ~TurnLive

\* a turn has ended by the close of its stream, having received every event
\* the stream had and yielded a fragment
C19_Witness ==
    /\ pc = "done"
    /\ nread = MaxEvents
    /\ output # <<>>
    /\ conn = "closed"

\* position of a trace entry in the order download, write, upload, unlink
Stage(what) ==
    CASE what \in {"download_ok", "download_fail"} -> 1
      [] what \in {"write_ok", "write_fail"} -> 2
      [] what \in {"upload_ok", "upload_fail"} -> 3
      [] what \in {"unlink_ok", "unlink_fail"} -> 4

\* C20: the steps of one resolution run in the order download, write,
\* upload, unlink; after a failed download nothing is written and the upload
\* is not called; and the upload is called only while the staging file
\* exists.
C20_ResolverOrder ==
    /\ \A i, j \in DOMAIN res.trace :
            i < j => Stage(res.trace[i]) < Stage(res.trace[j])
    /\ InTrace("download_fail") =>
            \A i \in DOMAIN res.trace : Stage(res.trace[i]) \in {1, 4}
    /\ pc = "upload" =>
            /\ res.trace = <<"download_ok", "write_ok">>
            /\ res.object_name # <<>>
            /\ res.object_name \in fs

\* a resolution whose download failed has returned, having only unlinked
C20_Witness ==
    /\ pc = "returned"
    /\ res.trace = <<"download_fail", "unlink_ok">>
    /\ IsErrorLine(res.ret)

====
